---- MODULE Spec2Model ----
(***************************************************************************)
(* gluster_peer: attach/detach peers to/from a GlusterFS trusted storage   *)
(* pool, through the gluster CLI (glusterd) or the glusterd2 REST API.     *)
(*                                                                         *)
(* The run of the module (main and class Peer) is the state machine; the   *)
(* cluster it talks to (the pool, and what the gluster CLI or glusterd2     *)
(* answer) is the environment, whose answers are chosen                    *)
(* nondeterministically among the ones the membership allows.  Nothing but *)
(* the run changes the pool.                                               *)
(***************************************************************************)
EXTENDS Integers, Sequences, FiniteSets, TLC

\* ------------------------------------------------------------------ bounds

\* Longest node list of a request.
MaxNodes == 3

\* --------------------------------------------------------- text, as tokens

\* A text the code splits is a sequence of tokens; a separator is a token.
TAB == "\t"
NL == "\n"
SP == " "
COLON == ":"

\* str.split(sep): the pieces between separators, each a token sequence.
RECURSIVE SplitFrom(_, _, _)
SplitFrom(toks, sep, cur) ==
    IF toks = <<>> THEN <<cur>>
    ELSE IF Head(toks) = sep THEN <<cur>> \o SplitFrom(Tail(toks), sep, <<>>)
    ELSE SplitFrom(Tail(toks), sep, Append(cur, Head(toks)))

Split(toks, sep) == SplitFrom(toks, sep, <<>>)

\* str.strip(): leading and trailing blanks dropped.
RECURSIVE LStrip(_)
LStrip(toks) ==
    IF toks # <<>> /\ Head(toks) = SP THEN LStrip(Tail(toks)) ELSE toks

RECURSIVE RStrip(_)
RStrip(toks) ==
    IF toks # <<>> /\ toks[Len(toks)] = SP
    THEN RStrip(SubSeq(toks, 1, Len(toks) - 1))
    ELSE toks

Strip(toks) == LStrip(RStrip(toks))

\* The string a token sequence spells.
RECURSIVE Join(_)
Join(toks) == IF toks = <<>> THEN "" ELSE Head(toks) \o Join(Tail(toks))

\* As RemoveFirst, but nothing is dropped (the remove call left out).
RemoveFirstKeeps(s, x) == s

\* list.remove(x): the first occurrence dropped; a list without x unchanged
\* (the ValueError is caught).
RECURSIVE RemoveFirst(_, _)
RemoveFirst(s, x) ==
    IF s = <<>> THEN <<>>
    ELSE IF Head(s) = x THEN Tail(s)
    ELSE <<Head(s)>> \o RemoveFirst(Tail(s), x)

Range(s) == {s[k] : k \in 1..Len(s)}

\* All sequences over S of length 0..n.
SeqsUpTo(S, n) == UNION {[1..k -> S] : k \in 0..n}

\* ------------------------------------------------------------- the cluster

\* The machines that can be peers of the local node: the identifier
\* glusterd2 gives each, the name the pool listing shows, its addresses.
Peers ==
    { [id |-> "id1", name |-> "n1",
       addrs |-> << <<"a1", COLON, "24008">>, <<"b1", COLON, "24008">> >>],
      [id |-> "id2", name |-> "n2",
       addrs |-> << <<"a2", COLON, "24008">> >>] }

PeerIds == {p.id : p \in Peers}
PeerOrder == <<"id1", "id2">>
PeerOf(id) == CHOOSE p \in Peers : p.id = id

AddrHost(addr) == Join(Split(addr, COLON)[1])
HostsOf(p) == {p.name} \cup {AddrHost(p.addrs[k]) : k \in 1..Len(p.addrs)}

LOCALHOST == "localhost"

\* The hosts a request may name.
\* The empty string is the empty host.
RequestHosts == {LOCALHOST, "n1", "a1", "b1", "n2", ""}

\* The names and address hosts of each peer, the host of its first address,
\* and the roster of each pool.
HostsOfPeer == [id \in PeerIds |-> HostsOf(PeerOf(id))]
FirstAddrHost == [id \in PeerIds |-> AddrHost(PeerOf(id).addrs[1])]

\* The peers a host string denotes (none for the local node).
Resolve(h) == {id \in PeerIds : h \in HostsOfPeer[id]}

\* h names the local node or a machine that is in the pool m.
IsMember(h, m) == h = LOCALHOST \/ Resolve(h) \cap m # {}

\* ------------------------------------------------- the gluster CLI's answers

\* What `gluster peer probe`, `gluster peer detach` and `gluster pool list`
\* print.  The sentinels the module looks for are substrings of two of them.
OUT_PROBE_OK == "peer probe: success. "
OUT_ALREADY == "peer probe: success. Host already in peer list"
OUT_LOCAL == "peer probe: success. Probe on localhost not needed"
OUT_DETACH_OK == "peer detach: success"
ERR_NOT_PEER == "peer detach: failed: not part of cluster"
ERR_DOWN == "Connection failed. Please check if gluster daemon is operational."

\* Failures that do not depend on the membership (a daemon or node down).
TransientReasons == {ERR_DOWN, "Internal Server Error", "Service Unavailable"}

\* `'already in peer' in out`, `'localhost not needed' in out`.
ContainsAlreadyInPeer(out) == out = OUT_ALREADY
ContainsLocalhostNotNeeded(out) == out = OUT_LOCAL

\* The rows of `gluster pool list` for the pool m: a header, one row per
\* peer (UUID, Hostname padded, State), the local node's row last.
RECURSIVE PeerRows(_, _)
PeerRows(order, m) ==
    IF order = <<>> THEN <<>>
    ELSE (IF Head(order) \in m
          THEN <<Head(order), TAB, PeerOf(Head(order)).name, SP, SP, TAB,
                 "Connected", SP, NL>>
          ELSE <<>>) \o PeerRows(Tail(order), m)

PoolListHeader == <<"UUID", TAB, TAB, "Hostname", TAB, "State", NL>>
LocalRow == <<"id0", TAB, LOCALHOST, TAB, "Connected", SP, NL>>

\* The answers of `gluster pool list`: the listing (rc 0), with the local
\* row or (a listing taken elsewhere) without it, or a failure with nothing
\* on stdout.
PoolListAnswers(m) ==
    { [rc |-> 0, out |-> PoolListHeader \o PeerRows(PeerOrder, m) \o LocalRow,
       err |-> ""],
      [rc |-> 0, out |-> PoolListHeader \o PeerRows(PeerOrder, m), err |-> ""],
      [rc |-> 1, out |-> <<>>, err |-> ERR_DOWN] }

\* The answers of `gluster peer probe node`, each with the pool it leaves.
\* A host that denotes no machine (the empty host) cannot be probed.
ProbeAnswers(node, m) ==
    {[rc |-> 1, out |-> "", err |-> ERR_DOWN, pool |-> m]}
    \cup (IF node = LOCALHOST
          THEN {[rc |-> 0, out |-> OUT_LOCAL, err |-> "", pool |-> m]}
          ELSE IF Resolve(node) = {}
          THEN {}
          ELSE IF Resolve(node) \cap m # {}
          THEN {[rc |-> 0, out |-> OUT_ALREADY, err |-> "", pool |-> m]}
          ELSE {[rc |-> 0, out |-> OUT_PROBE_OK, err |-> "",
                 pool |-> m \cup Resolve(node)]})

\* The answers of `gluster peer detach node [force]`.
DetachAnswers(node, m) ==
    IF Resolve(node) \cap m # {}
    THEN {[rc |-> 1, out |-> "", err |-> ERR_DOWN, pool |-> m],
          [rc |-> 0, out |-> OUT_DETACH_OK, err |-> "",
           pool |-> m \ Resolve(node)]}
    ELSE {[rc |-> 1, out |-> "", err |-> ERR_NOT_PEER, pool |-> m]}

PeerCommandAnswers(action, node, m) ==
    IF action = "probe" THEN ProbeAnswers(node, m) ELSE DetachAnswers(node, m)

\* ---------------------------------------------------- glusterd2's answers

CREATED == 201
NO_CONTENT == 204
OK == 200

\* The keys of a peer record in a response body.
RecordKeys == {"id", "name", "peer-addresses", "metadata"}

\* Failures glusterd2 may report whatever the membership.
HttpFailures ==
    { [status |-> 500, reason |-> "Internal Server Error", body |-> {}],
      [status |-> 503, reason |-> "Service Unavailable", body |-> {}] }

\* POST /v1/peers {addresses: [host]}: created (the record echoed), a
\* conflict for a host that is in the pool already, or a failure.
PeerAddAnswers(host, m) ==
    {[status |-> f.status, reason |-> f.reason, body |-> f.body, pool |-> m]
       : f \in HttpFailures}
    \cup (IF IsMember(host, m)
          THEN {[status |-> 409, reason |-> "Conflict", body |-> {},
                 pool |-> m]}
          ELSE {[status |-> CREATED, reason |-> "Created",
                 body |-> RecordKeys, pool |-> m \cup Resolve(host)]})

\* DELETE /v1/peers/{id}: no content, not found for an identifier that is
\* not in the pool, or a failure.
PeerRemoveAnswers(peerid, m) ==
    {[status |-> f.status, reason |-> f.reason, body |-> f.body, pool |-> m]
       : f \in HttpFailures}
    \cup (IF peerid \in m
          THEN {[status |-> NO_CONTENT, reason |-> "No Content", body |-> {},
                 pool |-> m \ {peerid}]}
          ELSE {[status |-> 404, reason |-> "Not Found", body |-> {},
                 pool |-> m]})

\* GET /v1/peers: the records of the pool, in the daemon's order.
Roster(m) == SelectSeq([k \in 1..Len(PeerOrder) |-> PeerOf(PeerOrder[k])],
                       LAMBDA p : p.id \in m)

RosterOf == [m \in SUBSET PeerIds |-> Roster(m)]

PeerStatusAnswers(m) ==
    { [status |-> OK, reason |-> "OK", roster |-> Roster(m)],
      [status |-> 500, reason |-> "Internal Server Error", roster |-> <<>>] }

\* BaseAPI._handle_request: an answer whose status is not the expected one
\* raises GlusterApiError (carrying the reason); otherwise (status, body) is
\* returned.
RaisesGlusterApiError(answer, expected) == answer.status # expected

\* ----------------------------------------------------- the version gate

\* The versions `gluster --version` may report, as LooseVersion parses
\* them: the list of their numeric components.
Versions == {<<3, 1>>, <<3, 5>>, <<4>>, <<4, 2>>}

required_version == <<3, 2>>
gd2_version == <<4>>

\* LooseVersion's `<`: the comparison of the component lists, as Python
\* compares lists (the first difference decides; a proper prefix is less).
RECURSIVE LooseLess(_, _)
LooseLess(a, b) ==
    IF a = <<>> THEN b # <<>>
    ELSE IF b = <<>> THEN FALSE
    ELSE IF Head(a) # Head(b) THEN Head(a) < Head(b)
    ELSE LooseLess(Tail(a), Tail(b))

\* main's two comparisons: which strategy a version selects.
SelectBackend(v) ==
    IF LooseLess(v, required_version) THEN "unsupported"
    ELSE IF LooseLess(gd2_version, v) THEN "glusterd2"
    ELSE "glusterd"

\* ------------------------------------------------------ the legacy backend

\* The Hostname column of a pool listing: the rows after the header, the
\* empty ones dropped, each row's second tab-separated field stripped.
ParsePoolList(output) ==
    LET lines == SelectSeq(Tail(Split(output, NL)), LAMBDA l : l # <<>>)
    IN  [k \in 1..Len(lines) |-> Join(Strip(Split(lines[k], TAB)[2]))]

\* What the history records about an answer of "gluster pool list".
ListingReason(answer) ==
    IF answer.rc # 0 THEN answer.err
    ELSE IF LOCALHOST \in Range(ParsePoolList(answer.out)) THEN "listing"
    ELSE "listing without localhost"

\* Peer.get_to_be_probed_hosts, given the listing's stdout: the member list
\* it builds, 'localhost' taken out of it, and the hosts that are not in it.
PeersInCluster(output) == RemoveFirst(ParsePoolList(output), LOCALHOST)

get_to_be_probed_hosts(hosts, output) ==
    SelectSeq(hosts, LAMBDA host : host \notin Range(PeersInCluster(output)))

\* The result dictionary: the keys it holds and the value under 'changed'.
NewResult == [keys |-> {"changed"}, changed |-> FALSE]

\* As PeerCommandStep, but a nonzero exit code is recorded and the loop
\* goes on (fail_json left out of the loop).
PeerCommandStepGoesOn(result, answer) ==
    IF answer.rc # 0
    THEN [result |-> [result EXCEPT !.keys = @ \cup {"rc", "msg"}],
          fatal |-> FALSE]
    ELSE IF ContainsAlreadyInPeer(answer.out)
            \/ ContainsLocalhostNotNeeded(answer.out)
    THEN [result |-> [result EXCEPT !.changed = @ \/ FALSE], fatal |-> FALSE]
    ELSE [result |-> [result EXCEPT !.changed = TRUE], fatal |-> FALSE]

\* As PeerCommandStep, but a sentinel answer stores False in 'changed'
\* (plain assignment in place of `|=`).
PeerCommandStepSentinelResets(result, answer) ==
    IF answer.rc # 0
    THEN [result |-> [result EXCEPT !.keys = @ \cup {"rc", "msg"}],
          fatal |-> TRUE]
    ELSE IF ContainsAlreadyInPeer(answer.out)
            \/ ContainsLocalhostNotNeeded(answer.out)
    THEN [result |-> [result EXCEPT !.changed = FALSE], fatal |-> FALSE]
    ELSE [result |-> [result EXCEPT !.changed = TRUE], fatal |-> FALSE]

\* One pass of call_peer_commands' loop on the command's answer: the result
\* it leaves and whether fail_json ended the run.
PeerCommandStep(result, answer) ==
    IF answer.rc # 0
    THEN [result |-> [result EXCEPT !.keys = @ \cup {"rc", "msg"}],
          fatal |-> TRUE]
    ELSE IF ContainsAlreadyInPeer(answer.out)
            \/ ContainsLocalhostNotNeeded(answer.out)
    THEN [result |-> [result EXCEPT !.changed = @ \/ FALSE], fatal |-> FALSE]
    ELSE [result |-> [result EXCEPT !.changed = TRUE], fatal |-> FALSE]

\* ------------------------------------------------------ the API backend

\* str.lower() of the reasons glusterd2 reports.
Lower(reason) ==
    CASE reason = "Conflict" -> "conflict"
      [] reason = "Internal Server Error" -> "internal server error"
      [] reason = "Service Unavailable" -> "service unavailable"
      [] reason = "Not Found" -> "not found"
      [] OTHER -> reason

\* As AddPeerStep, but a conflict fails the run like any server error.
AddPeerStepConflictFails(result, answer) ==
    IF ~RaisesGlusterApiError(answer, CREATED)
    THEN [result |-> IF answer.body # {}
                     THEN [keys |-> answer.body \cup {"changed"},
                           changed |-> TRUE]
                     ELSE [keys |-> {}, changed |-> FALSE],
          fatal |-> FALSE]
    ELSE IF Lower(answer.reason) \in {"conflict", "internal server error"}
    THEN [result |-> result, fatal |-> TRUE]
    ELSE [result |-> result, fatal |-> FALSE]

\* As AddPeerStep, but a conflict stores False in 'changed' (plain
\* assignment in place of `|=`).
AddPeerStepConflictResets(result, answer) ==
    IF ~RaisesGlusterApiError(answer, CREATED)
    THEN [result |-> IF answer.body # {}
                     THEN [keys |-> answer.body \cup {"changed"},
                           changed |-> TRUE]
                     ELSE [keys |-> {}, changed |-> FALSE],
          fatal |-> FALSE]
    ELSE IF Lower(answer.reason) = "conflict"
    THEN [result |-> [keys |-> result.keys \cup {"changed"},
                      changed |-> FALSE],
          fatal |-> FALSE]
    ELSE IF Lower(answer.reason) = "internal server error"
    THEN [result |-> result, fatal |-> TRUE]
    ELSE [result |-> result, fatal |-> FALSE]

\* PeerApis.peer_add's check of its argument: `if not host` raises
\* GlusterApiInvalidInputs before any request is made.
PeerAddRaisesInvalidInputs(host) == host = ""

\* One pass of glusterd2_add_peers' loop on peer_add's answer.  The call's
\* return value replaces the result; an exception leaves it as it was.
AddPeerStep(result, answer) ==
    IF ~RaisesGlusterApiError(answer, CREATED)
    THEN [result |-> IF answer.body # {}
                     THEN [keys |-> answer.body \cup {"changed"},
                           changed |-> TRUE]
                     ELSE [keys |-> {}, changed |-> FALSE],
          fatal |-> FALSE]
    ELSE IF Lower(answer.reason) = "conflict"
    THEN [result |-> [result EXCEPT !.changed = @ \/ FALSE],
          fatal |-> "changed" \notin result.keys]
    ELSE IF Lower(answer.reason) = "internal server error"
    THEN [result |-> result, fatal |-> TRUE]
    ELSE [result |-> result, fatal |-> FALSE]

\* Peer._get_peer_id's loop: every record's identifier under its name and
\* under the host part of its first address; a later record overwrites.
RECURSIVE PeerInfo(_, _)
PeerInfo(peer_list, peer_info) ==
    IF peer_list = <<>> THEN peer_info
    ELSE LET peer == Head(peer_list)
             hostname == peer.name
             peer_ipaddr == Join(Split(peer.addrs[1], COLON)[1])
         IN  PeerInfo(Tail(peer_list),
                      (peer_ipaddr :> peer.id) @@ (hostname :> peer.id)
                        @@ peer_info)

\* As get_peer_id, but every key is given the first record's identifier
\* (peer_id read once, outside the loop).
get_peer_id_first(peer_list) ==
    LET peer_info == PeerInfo(peer_list, <<>>)
    IN  [h \in DOMAIN peer_info |-> peer_list[1].id]

\* As get_peer_id, but every key is given its own text, not the identifier.
get_peer_id_names(peer_list) ==
    LET peer_info == PeerInfo(peer_list, <<>>)
    IN  [h \in DOMAIN peer_info |-> h]

get_peer_id(peer_list) == PeerInfo(peer_list, <<>>)

\* One pass of glusterd2_remove_peers' loop on peer_remove's answer.
RemovePeerStep(result, answer) ==
    IF RaisesGlusterApiError(answer, NO_CONTENT)
    THEN [result |-> result, fatal |-> TRUE]
    ELSE [result |-> IF answer.status = 204
                     THEN [keys |-> answer.body \cup {"changed"},
                           changed |-> TRUE]
                     ELSE [keys |-> answer.body, changed |-> FALSE],
          fatal |-> FALSE]

\* As RemoveUnknownPeerStep, but the KeyError is not caught.
RemoveUnknownPeerStepRaises(result) ==
    [result |-> result, fatal |-> TRUE]

\* The same pass for a node peer_ids does not hold: the KeyError is caught.
RemoveUnknownPeerStep(result) ==
    [result |-> [result EXCEPT !.changed = @ \/ FALSE],
     fatal |-> "changed" \notin result.keys]

\* ------------------------------------------------------------ the state

VARIABLES
    request,    \* the module's parameters: state, nodes, force, master
    version,    \* the installed version, as `gluster --version` reports it
    pool,       \* the peers in the trusted pool (the local node is always in)
    pool0,      \* the pool when the current run started
    run,        \* "first", or "second" for the same request applied again
    first,      \* what the first run reported
    pc,         \* the function the run is in
    backend,    \* the strategy main selected
    outcome,    \* "None" while running, then "Success" (exit_json) or "Fatal"
    nodes,      \* self.nodes
    action,     \* self.action
    force,      \* self.force
    i,          \* the position in self.nodes the loop is at
    result,     \* the result dictionary
    peer_ids,   \* glusterd2_remove_peers' peer_ids
    peers_in_cluster,   \* get_to_be_probed_hosts' peers_in_cluster
    log         \* the list entries handled and the calls issued, in order

vars == <<request, version, pool, pool0, run, first, pc, backend, outcome,
          nodes, action, force, i, result, peer_ids, peers_in_cluster, log>>

\* An entry of the log: the call (op, arg, force) made for a list entry
\* (node), or the entry handled without a call (issued FALSE); the answer's
\* status (exit code or HTTP status) and reason (stdout, stderr or HTTP
\* reason); the value under 'changed' once the answer was handled.
Entry(op, node, arg, withForce, issued, status, reason, changed) ==
    [op |-> op, node |-> node, arg |-> arg, force |-> withForce,
     issued |-> issued, status |-> status, reason |-> reason,
     changed |-> changed]

Requests ==
    [state : {"present", "absent"},
     nodes : SeqsUpTo(RequestHosts, MaxNodes),
     force : BOOLEAN,
     master : {"", "10.70.41.250"}]

\* exit_json(**result): the changed flag the run reports.
ReportedChanged == "changed" \in result.keys /\ result.changed

Init ==
    /\ request \in Requests
    /\ version \in Versions
    /\ pool \in SUBSET PeerIds
    /\ pool0 = pool
    /\ run = "first"
    /\ first = [changed |-> FALSE]
    /\ pc = "main"
    /\ backend = "none"
    /\ outcome = "None"
    /\ nodes = <<>>
    /\ action = ""
    /\ force = ""
    /\ i = 1
    /\ result = NewResult
    /\ peer_ids = <<>>
    /\ peers_in_cluster = <<>>
    /\ log = <<>>

\* fail_json: the run ends in failure.
Fail == pc' = "exit" /\ outcome' = "Fatal"

\* exit_json: the run ends in success.
Exit == pc' = "exit" /\ outcome' = "Success"

\* `if not self.nodes`: the check of the node list both backends start with.
\* NodesEmptyNever is the check left out.
NodesEmptyNever(node_list) == FALSE

NodesEmpty(node_list) == node_list = <<>>

\* `if not self.master`: the check glusterd2_add_peers and
\* glusterd2_remove_peers start with.  MasterMissingNever is the check left
\* out.
MasterMissingNever(master) == FALSE

MasterMissing(master) == master = ""

\* self.force as gluster_peer_ops leaves it: 'force' when the caller asked
\* for it, and '' again for a probe.  PeerOpsForceKept is the same without
\* the reset for a probe.
PeerOpsForceKept(state, requested) == IF requested THEN "force" ELSE ""

PeerOpsForce(state, requested) ==
    IF state = "present" THEN ""
    ELSE IF requested THEN "force" ELSE ""

\* The loop's step to the next list entry.  NextIndexStays is a loop that
\* takes the same entry again.
NextIndexStays(k) == k

NextIndex(k) == k + 1

\* ---------------------------------------------------------------- main

\* main: Peer.__init__, check_gluster_version (rc is the exit code of
\* `gluster --version`), then the two version comparisons.
main ==
    /\ pc = "main"
    /\ \E rc \in {0, 1} :
         /\ nodes' = request.nodes
         /\ action' = ""
         /\ force' = ""
         /\ IF rc > 0 \/ SelectBackend(version) = "unsupported"
            THEN Fail /\ backend' = backend
            ELSE /\ backend' = SelectBackend(version)
                 /\ pc' = IF SelectBackend(version) = "glusterd2"
                          THEN "glusterd2_peer_ops" ELSE "gluster_peer_ops"
                 /\ outcome' = outcome
    /\ UNCHANGED <<request, version, pool, pool0, run, first, i, result,
                   peer_ids, log, peers_in_cluster>>

\* ------------------------------------------------------ legacy backend

\* Peer.gluster_peer_ops up to its call of call_peer_commands; for
\* state=present it runs `gluster pool list` (get_to_be_probed_hosts).
gluster_peer_ops ==
    /\ pc = "gluster_peer_ops"
    /\ IF NodesEmpty(nodes)
       THEN Fail /\ UNCHANGED <<nodes, action, force, log, peers_in_cluster>>
       ELSE IF request.state = "present"
       THEN \E answer \in PoolListAnswers(pool) :
              /\ peers_in_cluster' = PeersInCluster(answer.out)
              /\ nodes' = get_to_be_probed_hosts(nodes, answer.out)
              /\ action' = "probe"
              /\ force' = PeerOpsForce(request.state, request.force)
              /\ log' = Append(log, Entry("list", "", "", FALSE, TRUE,
                                          answer.rc,
                                          ListingReason(answer),
                                          result.changed))
              /\ pc' = "call_peer_commands"
              /\ outcome' = outcome
       ELSE /\ action' = "detach"
            /\ force' = PeerOpsForce(request.state, request.force)
            /\ pc' = "call_peer_commands"
            /\ UNCHANGED <<nodes, outcome, log, peers_in_cluster>>
    /\ i' = 1
    /\ result' = NewResult
    /\ UNCHANGED <<request, version, pool, pool0, run, first, backend,
                   peer_ids>>

\* One pass of call_peer_commands' loop: the command for self.nodes[i].
call_peer_command ==
    /\ pc = "call_peer_commands"
    /\ i <= Len(nodes)
    /\ \E answer \in PeerCommandAnswers(action, nodes[i], pool) :
         LET step == PeerCommandStep(result, answer) IN
         /\ pool' = answer.pool
         /\ result' = step.result
         /\ log' = Append(log, Entry(action, nodes[i], nodes[i],
                                     force # "", TRUE, answer.rc,
                                     IF answer.rc = 0 THEN answer.out
                                     ELSE answer.err,
                                     step.result.changed))
         /\ IF step.fatal
            THEN Fail /\ i' = i
            ELSE i' = NextIndex(i) /\ UNCHANGED <<pc, outcome>>
    /\ UNCHANGED <<request, version, pool0, run, first, backend, nodes,
                   action, force, peer_ids, peers_in_cluster>>

\* call_peer_commands after its loop: exit_json.
call_peer_commands_exit ==
    /\ pc = "call_peer_commands"
    /\ i > Len(nodes)
    /\ Exit
    /\ UNCHANGED <<request, version, pool, pool0, run, first, backend, nodes,
                   action, force, i, result, peer_ids, log,
                   peers_in_cluster>>

\* --------------------------------------------------------- API backend

\* Peer.glusterd2_peer_ops: the empty-list check and the dispatch.
glusterd2_peer_ops ==
    /\ pc = "glusterd2_peer_ops"
    /\ IF NodesEmpty(nodes)
       THEN Fail /\ force' = force
       ELSE /\ force' = IF request.force THEN "force" ELSE ""
            /\ pc' = IF request.state = "present"
                     THEN "glusterd2_add_peers" ELSE "glusterd2_remove_peers"
            /\ outcome' = outcome
    /\ UNCHANGED <<request, version, pool, pool0, run, first, backend, nodes,
                   action, i, result, peer_ids, log, peers_in_cluster>>

\* Peer.glusterd2_add_peers up to its loop: the master check.
glusterd2_add_peers ==
    /\ pc = "glusterd2_add_peers"
    /\ result' = NewResult
    /\ i' = 1
    /\ IF MasterMissing(request.master)
       THEN Fail
       ELSE pc' = "add_peers_loop" /\ outcome' = outcome
    /\ UNCHANGED <<request, version, pool, pool0, run, first, backend, nodes,
                   action, force, peer_ids, log, peers_in_cluster>>

\* One pass of glusterd2_add_peers' loop: peer_add for self.nodes[i].
glusterd2_add_peer ==
    /\ pc = "add_peers_loop"
    /\ i <= Len(nodes)
    /\ IF PeerAddRaisesInvalidInputs(nodes[i])
       THEN \* no clause of the loop handles the exception: the run dies
            /\ log' = Append(log, Entry("add", nodes[i], nodes[i], FALSE,
                                        FALSE, 0, "GlusterApiInvalidInputs",
                                        ReportedChanged))
            /\ Fail
            /\ UNCHANGED <<pool, result, i>>
       ELSE \E answer \in PeerAddAnswers(nodes[i], pool) :
         LET step == AddPeerStep(result, answer) IN
         /\ pool' = answer.pool
         /\ result' = step.result
         /\ log' = Append(log, Entry("add", nodes[i], nodes[i], FALSE, TRUE,
                                     answer.status, answer.reason,
                                     "changed" \in step.result.keys
                                       /\ step.result.changed))
         /\ IF step.fatal
            THEN Fail /\ i' = i
            ELSE i' = NextIndex(i) /\ UNCHANGED <<pc, outcome>>
    /\ UNCHANGED <<request, version, pool0, run, first, backend, nodes,
                   action, force, peer_ids, peers_in_cluster>>

\* glusterd2_add_peers after its loop: exit_json.
glusterd2_add_peers_exit ==
    /\ pc = "add_peers_loop"
    /\ i > Len(nodes)
    /\ Exit
    /\ UNCHANGED <<request, version, pool, pool0, run, first, backend, nodes,
                   action, force, i, result, peer_ids, log,
                   peers_in_cluster>>

\* Peer.glusterd2_remove_peers up to its loop: the master check, then
\* _get_peer_id (peer_status and the lookup table).
glusterd2_remove_peers ==
    /\ pc = "glusterd2_remove_peers"
    /\ result' = NewResult
    /\ i' = 1
    /\ IF MasterMissing(request.master)
       THEN Fail /\ UNCHANGED <<peer_ids, log>>
       ELSE \E answer \in PeerStatusAnswers(pool) :
              /\ log' = Append(log, Entry("roster", "", "", FALSE, TRUE,
                                          answer.status, answer.reason,
                                          FALSE))
              /\ IF RaisesGlusterApiError(answer, OK) \/ answer.status # 200
                 THEN Fail /\ peer_ids' = peer_ids
                 ELSE /\ peer_ids' = get_peer_id(answer.roster)
                      /\ pc' = "remove_peers_loop"
                      /\ outcome' = outcome
    /\ UNCHANGED <<request, version, pool, pool0, run, first, backend, nodes,
                   action, force, peers_in_cluster>>

\* One pass of glusterd2_remove_peers' loop: peer_remove for the identifier
\* of self.nodes[i], or nothing for a node peer_ids does not hold.
glusterd2_remove_peer ==
    /\ pc = "remove_peers_loop"
    /\ i <= Len(nodes)
    /\ IF nodes[i] \in DOMAIN peer_ids
       THEN \E answer \in PeerRemoveAnswers(peer_ids[nodes[i]], pool) :
              LET step == RemovePeerStep(result, answer) IN
              /\ pool' = answer.pool
              /\ result' = step.result
              /\ log' = Append(log, Entry("remove", nodes[i],
                                          peer_ids[nodes[i]], FALSE, TRUE,
                                          answer.status, answer.reason,
                                          "changed" \in step.result.keys
                                            /\ step.result.changed))
              /\ IF step.fatal
                 THEN Fail /\ i' = i
                 ELSE i' = NextIndex(i) /\ UNCHANGED <<pc, outcome>>
       ELSE LET step == RemoveUnknownPeerStep(result) IN
            /\ pool' = pool
            /\ result' = step.result
            /\ log' = Append(log, Entry("remove", nodes[i], "", FALSE, FALSE,
                                        0, "KeyError",
                                        "changed" \in step.result.keys
                                          /\ step.result.changed))
            /\ IF step.fatal
               THEN Fail /\ i' = i
               ELSE i' = NextIndex(i) /\ UNCHANGED <<pc, outcome>>
    /\ UNCHANGED <<request, version, pool0, run, first, backend, nodes,
                   action, force, peer_ids, peers_in_cluster>>

\* glusterd2_remove_peers after its loop: exit_json.
glusterd2_remove_peers_exit ==
    /\ pc = "remove_peers_loop"
    /\ i > Len(nodes)
    /\ Exit
    /\ UNCHANGED <<request, version, pool, pool0, run, first, backend, nodes,
                   action, force, i, result, peer_ids, log,
                   peers_in_cluster>>

\* ------------------------------------------------------ the second run

\* The same request applied again after a run that ended in success, on
\* the pool that run left: a new process, a new Peer.
reapply ==
    /\ outcome = "Success"
    /\ run = "first"
    /\ run' = "second"
    /\ first' = [changed |-> ReportedChanged]
    /\ pool0' = pool
    /\ pc' = "main"
    /\ backend' = "none"
    /\ outcome' = "None"
    /\ nodes' = <<>>
    /\ action' = ""
    /\ force' = ""
    /\ i' = 1
    /\ result' = NewResult
    /\ peer_ids' = <<>>
    /\ peers_in_cluster' = <<>>
    /\ log' = <<>>
    /\ UNCHANGED <<request, version, pool>>

Next ==
    \/ main
    \/ gluster_peer_ops
    \/ call_peer_command
    \/ call_peer_commands_exit
    \/ glusterd2_peer_ops
    \/ glusterd2_add_peers
    \/ glusterd2_add_peer
    \/ glusterd2_add_peers_exit
    \/ glusterd2_remove_peers
    \/ glusterd2_remove_peer
    \/ glusterd2_remove_peers_exit
    \/ reapply

Spec == Init /\ [][Next]_vars

\* ============================================================== claims

\* The entry before log[k] left 'changed' at this value (FALSE at the start).
ChangedBefore(k) == IF k = 1 THEN FALSE ELSE log[k - 1].changed

\* An answer the claims call a fatal failure: a nonzero exit code of a
\* probe or detach, an internal server error of a creation call, any error
\* of a deletion call.
FatalAnswer(e) ==
    /\ e.issued
    /\ \/ e.op \in {"probe", "detach"} /\ e.status # 0
       \/ e.op = "add" /\ e.status # CREATED
            /\ Lower(e.reason) = "internal server error"
       \/ e.op = "remove" /\ e.status # NO_CONTENT

\* The one mutating call a request asks for on the selected backend.
RequestOp ==
    IF backend = "glusterd"
    THEN (IF request.state = "present" THEN "probe" ELSE "detach")
    ELSE (IF request.state = "present" THEN "add" ELSE "remove")

\* The pool m after the membership changes the answers in entries report.
RECURSIVE Effects(_, _)
Effects(m, entries) ==
    IF entries = <<>> THEN m
    ELSE LET e == Head(entries) IN
         Effects(CASE e.op = "probe" /\ e.status = 0 /\ e.reason = OUT_PROBE_OK
                        -> m \cup Resolve(e.arg)
                   [] e.op = "detach" /\ e.status = 0 -> m \ Resolve(e.arg)
                   [] e.op = "add" /\ e.status = CREATED -> m \cup Resolve(e.arg)
                   [] e.op = "remove" /\ e.status = NO_CONTENT -> m \ {e.arg}
                   [] OTHER -> m,
                 Tail(entries))

IsPrefix(s, t) == Len(s) <= Len(t) /\ s = SubSeq(t, 1, Len(s))

\* The version v as a number is below w (missing components count as 0).
RECURSIVE NumLess(_, _)
NumLess(v, w) ==
    IF v = <<>> /\ w = <<>> THEN FALSE
    ELSE LET a == IF v = <<>> THEN 0 ELSE Head(v)
             b == IF w = <<>> THEN 0 ELSE Head(w)
         IN  IF a # b THEN a < b
             ELSE NumLess(IF v = <<>> THEN v ELSE Tail(v),
                          IF w = <<>> THEN w ELSE Tail(w))

\* C1: a run that ends in Success leaves the pool as the request asks: for
\* state=present every listed node is a member, for state=absent no listed
\* node (by name or by any address of its record) is a member.
C1_SuccessMatchesRequest ==
    outcome = "Success" =>
        \A k \in 1..Len(request.nodes) :
            IF request.state = "present"
            THEN IsMember(request.nodes[k], pool)
            ELSE Resolve(request.nodes[k]) \cap pool = {}

\* C2: a state=present request applied a second time, right after the
\* first application succeeded, reports changed=false.
C2_SecondPresentUnchanged ==
    (run = "second" /\ request.state = "present" /\ outcome = "Success")
        => ~ReportedChanged

\* C3: any request applied again after a successful run ends in Success
\* with changed=false (unless the cluster's daemons fail the second run).
C3_ReapplySucceedsUnchanged ==
    (/\ run = "second"
     /\ backend # "none"
     /\ outcome # "None"
     /\ \A k \in 1..Len(log) : log[k].reason \notin TransientReasons)
        => (outcome = "Success" /\ ~ReportedChanged)

\* C4: the backend is chosen from the version before any query or change:
\* a version below 3.2 ends the run with no call issued, a version at or
\* above 4 selects the API strategy, one in between the legacy strategy.
C4_VersionGate ==
    /\ pc = "main" => (log = <<>> /\ pool = pool0 /\ backend = "none")
    /\ NumLess(version, required_version) =>
           /\ backend = "none" /\ log = <<>>
           /\ pc # "main" => outcome = "Fatal"
    /\ backend # "none" =>
           backend = IF NumLess(version, gd2_version)
                     THEN "glusterd" ELSE "glusterd2"

\* C5: a fatal failure at one node is the last call of the run: the run is
\* Fatal, no later node is attempted, only the requested kind of call was
\* ever issued (no compensating call), and the pool is the initial pool
\* with the changes already applied.
C5_FatalShortCircuit ==
    /\ \A k \in 1..Len(log) :
         /\ FatalAnswer(log[k]) => (k = Len(log) /\ outcome = "Fatal")
         /\ log[k].op \in {"list", "roster", RequestOp}
    /\ pool = Effects(pool0, log)

\* C5's case: the first node changed the pool, the second failed fatally,
\* a third is left, and the first node's change is still there.
C5_Witness ==
    /\ outcome = "Fatal"
    /\ Len(nodes) = 3 /\ i = 2
    /\ FatalAnswer(log[Len(log)])
    /\ pool # pool0

\* The peers a pool listing of m shows (the local node is no peer).
ListedPeers(m) == {PeerOf(id).name : id \in m}

\* The nodes probed so far, in order.
Probed ==
    LET es == SelectSeq(log, LAMBDA e : e.op = "probe")
    IN  [k \in 1..Len(es) |-> es[k].arg]

\* C6: on the legacy present path the nodes probed are the desired list
\* without the current pool members, in order; a member is never probed,
\* and with every desired node a member the run succeeds unchanged with no
\* probe.
C6_ProbesAreTheDelta ==
    (backend = "glusterd" /\ request.state = "present") =>
        LET delta == SelectSeq(request.nodes,
                               LAMBDA h : h \notin ListedPeers(pool0))
        IN  /\ IsPrefix(Probed, delta)
            /\ outcome = "Success" => Probed = delta
            /\ (delta = <<>> /\ request.nodes # <<>> /\ pc = "exit")
                   => (outcome = "Success" /\ ~ReportedChanged)

\* C7: a pool listing that fails (nonzero exit) ends the run in Fatal with
\* no probe issued.
C7_FailedListingIsFatal ==
    \A k \in 1..Len(log) :
        (log[k].op = "list" /\ log[k].status # 0)
            => (outcome = "Fatal" /\ Len(log) = k)

\* C8: a creation call that fails with any reason but a conflict ends the
\* run in Fatal at that node.
C8_OtherAddFailureIsFatal ==
    \A k \in 1..Len(log) :
        (log[k].op = "add" /\ log[k].status # CREATED
           /\ Lower(log[k].reason) # "conflict")
            => (k = Len(log) /\ outcome = "Fatal")

\* A creation call answered with a conflict.
ConflictAnswer(e) ==
    e.op = "add" /\ e.status # CREATED /\ Lower(e.reason) = "conflict"

\* C9: a conflict for a node leaves 'changed' as it was, does not end the
\* run, and the next node is attempted; a successful run attempted every
\* node, and one where every node conflicted reports changed=false.
C9_ConflictAbsorbed ==
    /\ \A k \in 1..Len(log) :
         ConflictAnswer(log[k]) =>
           /\ log[k].changed = ChangedBefore(k)
           /\ k = Len(log) =>
                \/ outcome = "None" /\ pc = "add_peers_loop" /\ i = k + 1
                \/ outcome = "Success" /\ k = Len(nodes)
    /\ (RequestOp = "add" /\ outcome = "Success") =>
         /\ Len(log) = Len(nodes)
         /\ (\A k \in 1..Len(log) : ConflictAnswer(log[k]))
                => ~ReportedChanged

\* C9's case: the first node conflicted and the second was then created.
C9_Witness ==
    /\ Len(log) >= 2
    /\ ConflictAnswer(log[1])
    /\ log[2].op = "add" /\ log[2].status = CREATED
    /\ outcome = "Success"

\* node has an identifier in the roster: it is the name of a record, or the
\* host part of a record's first address.
ResolvableIn(node, roster) ==
    \E k \in 1..Len(roster) :
        node = roster[k].name \/ node = FirstAddrHost[roster[k].id]

\* C10: on the API absent path a node with no identifier in the fetched
\* roster gets no deletion call and leaves 'changed' as it was, and the run
\* goes on; every other node gets its deletion call, and a 204 marks the
\* run changed.
C10_UnknownPeerLenient ==
    \A k \in 1..Len(log) :
        log[k].op = "remove" =>
            IF ~ResolvableIn(log[k].node, RosterOf[pool0])
            THEN /\ ~log[k].issued
                 /\ log[k].changed = ChangedBefore(k)
                 /\ k = Len(log) =>
                      \/ outcome = "None" /\ pc = "remove_peers_loop" /\ i = k
                      \/ outcome = "Success" /\ k = Len(nodes) + 1
            ELSE /\ log[k].issued
                 /\ log[k].arg \in PeerIds
                 /\ log[k].node \in HostsOfPeer[log[k].arg]
                 /\ log[k].status = NO_CONTENT => log[k].changed

\* C10's case: a node without identifier between two nodes that are
\* deleted, in a run that succeeds and reports changed.
C10_Witness ==
    /\ outcome = "Success"
    /\ Len(log) = 4
    /\ log[2].issued /\ log[2].status = NO_CONTENT
    /\ log[3].op = "remove" /\ ~log[3].issued
    /\ log[4].issued /\ log[4].status = NO_CONTENT
    /\ ReportedChanged

\* C11: a request whose list holds an empty host ends in failure with no
\* probe or detach command and no HTTP request issued, wherever the empty
\* host stands in the list and on either backend.
C11_EmptyHostBeforeAnyCall ==
    "" \in Range(request.nodes) =>
        /\ outcome # "Success"
        /\ \A k \in 1..Len(log) :
             ~(log[k].issued
               /\ log[k].op \in {"probe", "detach", "add", "roster", "remove"})


\* C12: a run whose node list is empty (either backend), or whose master is
\* missing on the glusterd2 backend, issues no pool listing, probe, detach,
\* roster fetch, creation or deletion call, leaves the pool as it was, and
\* can only end in failure.
C12_ConfigValidationFirst ==
    (request.nodes = <<>> \/ (backend = "glusterd2" /\ request.master = "")) =>
        /\ log = <<>>
        /\ pool = pool0
        /\ outcome # "Success"
        /\ pc \notin {"call_peer_commands", "add_peers_loop",
                      "remove_peers_loop"}
        /\ (pc = "exit" => outcome = "Fatal")

\* A glusterd2 run with nodes to remove but no master has failed.
C12_Witness ==
    /\ backend = "glusterd2"
    /\ request.master = ""
    /\ request.nodes # <<>>
    /\ request.state = "absent"
    /\ pc = "exit"
    /\ outcome = "Fatal"
    /\ log = <<>>


\* C13: on the legacy backend every detach command carries the force argument
\* exactly when the caller requested force, and no probe command carries it,
\* whatever the caller requested.
C13_ForceOnlyOnDetach ==
    \A k \in 1..Len(log) :
        /\ log[k].op = "detach" => (log[k].force <=> request.force)
        /\ log[k].op = "probe" => ~log[k].force

\* A probe command was run for a caller that requested force.
C13_Witness ==
    /\ request.force
    /\ request.state = "present"
    /\ \E k \in 1..Len(log) : log[k].op = "probe" /\ ~log[k].force


\* C14: once the roster has been fetched, every record of it is found in
\* peer_ids under its display name and under the host part of each of its
\* addresses, and each of these lookups gives the record's identifier.
C14_DualKeyResolution ==
    (log # <<>> /\ log[1].op = "roster" /\ log[1].status = OK) =>
        \A k \in 1..Len(RosterOf[pool0]) :
            \A h \in HostsOfPeer[RosterOf[pool0][k].id] :
                /\ h \in DOMAIN peer_ids
                /\ peer_ids[h] = RosterOf[pool0][k].id


\* The identifiers of the records of a roster.
RosterIds(roster) == {roster[k].id : k \in 1..Len(roster)}

\* C15: a deletion call is issued only after the run's roster fetch answered
\* OK, and its key is the identifier of a record of that roster, never a host
\* name; a roster fetch that did not answer OK ends the run in Fatal with no
\* deletion call; an empty roster ends the run in Success, unchanged.
C15_RosterBeforeDeletion ==
    /\ \A k \in 1..Len(log) :
         (log[k].op = "remove" /\ log[k].issued) =>
            /\ k > 1
            /\ log[1].op = "roster"
            /\ log[1].status = OK
            /\ log[k].arg \in RosterIds(RosterOf[pool0])
            /\ log[k].arg \notin RequestHosts
    /\ (log # <<>> /\ log[1].op = "roster" /\ log[1].status # OK) =>
         /\ Len(log) = 1
         /\ outcome = "Fatal"
    /\ (log # <<>> /\ log[1].op = "roster" /\ log[1].status = OK
          /\ RosterOf[pool0] = <<>>) =>
         /\ outcome # "Fatal"
         /\ \A k \in 1..Len(log) : ~log[k].issued \/ k = 1
         /\ pc = "exit" => (outcome = "Success" /\ ~ReportedChanged)

\* A deletion call keyed by a roster identifier was answered with no content
\* after the roster fetch answered OK.
C15_Witness ==
    /\ Len(log) >= 2
    /\ log[1].op = "roster"
    /\ log[1].status = OK
    /\ log[2].op = "remove"
    /\ log[2].issued
    /\ log[2].status = NO_CONTENT
    /\ log[2].arg \in RosterIds(RosterOf[pool0])


\* The answer recorded in e is a sentinel answer: exit code zero and an
\* output holding "already in peer" or "localhost not needed".
SentinelEntry(e) ==
    /\ e.op \in {"probe", "detach"}
    /\ e.status = 0
    /\ (ContainsAlreadyInPeer(e.reason) \/ ContainsLocalhostNotNeeded(e.reason))

\* The answer recorded in e is exit code zero without a sentinel.
ChangingEntry(e) ==
    /\ e.op \in {"probe", "detach"}
    /\ e.status = 0
    /\ ~ContainsAlreadyInPeer(e.reason)
    /\ ~ContainsLocalhostNotNeeded(e.reason)

\* C16: a legacy run that ends in Success reports changed exactly when some
\* command answered exit code zero without a sentinel; a sentinel answer
\* leaves the changed flag as the earlier nodes set it.
C16_LegacyChangedIsOr ==
    backend = "glusterd" =>
        /\ outcome = "Success" =>
             (ReportedChanged <=>
                \E k \in 1..Len(log) : ChangingEntry(log[k]))
        /\ \A k \in 1..Len(log) :
             SentinelEntry(log[k]) => (log[k].changed <=> ChangedBefore(k))

\* A successful legacy run whose sentinel answer came after a changing one
\* reports changed.
C16_Witness ==
    /\ backend = "glusterd"
    /\ outcome = "Success"
    /\ ReportedChanged
    /\ \E k \in 1..Len(log) : \E j \in 1..Len(log) :
         k < j /\ ChangingEntry(log[k]) /\ SentinelEntry(log[j])


\* The entry records a call that changed membership on the glusterd2
\* backend: a creation call answered Created or a deletion call answered
\* No Content.
ApiChangingEntry(e) ==
    /\ e.issued
    /\ \/ e.op = "add" /\ e.status = CREATED
       \/ e.op = "remove" /\ e.status = NO_CONTENT

\* The entry records a node absorbed as unchanged on the glusterd2 backend:
\* a conflict on creation, or a node peer_ids does not hold on deletion.
ApiAbsorbedEntry(e) ==
    \/ e.op = "add" /\ e.issued /\ Lower(e.reason) = "conflict"
    \/ e.op = "remove" /\ ~e.issued

\* C17: a glusterd2 run that ends in Success reports changed exactly when
\* some creation call answered Created or some deletion call answered
\* No Content; an absorbed node leaves the changed flag as the earlier
\* nodes set it.
C17_ApiChangedIsOr ==
    backend = "glusterd2" =>
        /\ outcome = "Success" =>
             (ReportedChanged <=>
                \E k \in 1..Len(log) : ApiChangingEntry(log[k]))
        /\ \A k \in 1..Len(log) :
             ApiAbsorbedEntry(log[k]) => (log[k].changed <=> ChangedBefore(k))

\* A successful glusterd2 run in which an absorbed node came after a
\* changing one reports changed.
C17_Witness ==
    /\ backend = "glusterd2"
    /\ outcome = "Success"
    /\ ReportedChanged
    /\ \E k \in 1..Len(log) : \E j \in 1..Len(log) :
         k < j /\ ApiChangingEntry(log[k]) /\ ApiAbsorbedEntry(log[j])


\* C18: on the legacy present path the member list the listing is parsed
\* into never holds localhost: after a successful listing it is the names of
\* the pool's peers, and the nodes to probe are the requested nodes not among
\* them; a listing without a localhost row does not fail the run.
C18_SelfFiltering ==
    /\ LOCALHOST \notin Range(peers_in_cluster)
    /\ (log # <<>> /\ log[1].op = "list" /\ log[1].status = 0) =>
         /\ Range(peers_in_cluster) = ListedPeers(pool0)
         /\ nodes = SelectSeq(request.nodes,
                              LAMBDA h : h \notin ListedPeers(pool0))
         /\ Len(log) = 1 => outcome # "Fatal"

\* A listing with a localhost row was parsed, and the requested localhost is
\* among the nodes to probe.
C18_Witness ==
    /\ log # <<>>
    /\ log[1].op = "list"
    /\ log[1].reason = "listing"
    /\ peers_in_cluster # <<>>
    /\ LOCALHOST \notin Range(peers_in_cluster)
    /\ LOCALHOST \in Range(nodes)

\* A listing without a localhost row was parsed and the run went on to its
\* commands and succeeded.
C18_WitnessNoLocalRow ==
    /\ log # <<>>
    /\ log[1].op = "list"
    /\ log[1].reason = "listing without localhost"
    /\ outcome = "Success"


\* The entries of the history that are not observations of the membership.
NodeEntries == SelectSeq(log, LAMBDA e : e.op \notin {"list", "roster"})

\* C19: a run observes the membership at most once, as its first call; the
\* calls after it are one per entry of the node list, in the list's order,
\* which is the order of the request; no entry is taken a second time,
\* whatever its call answered.
C19_SequentialOnceNoRetry ==
    LET entries == NodeEntries
        taken == Range(nodes)
    IN  /\ \A k \in 1..Len(log) : log[k].op \in {"list", "roster"} => k = 1
        /\ Len(entries) <= Len(nodes)
        /\ \A k \in 1..Len(entries) : entries[k].node = nodes[k]
        /\ nodes = SelectSeq(request.nodes, LAMBDA h : h \in taken)
        /\ pc \in {"call_peer_commands", "add_peers_loop", "remove_peers_loop"}
             => Len(entries) = i - 1

\* A creation call that failed with a swallowed error was followed by the
\* calls for the next two entries, and the run ended.
C19_Witness ==
    /\ pc = "exit"
    /\ Len(log) = 3
    /\ log[1].op = "add"
    /\ log[1].status = 503
    /\ log[1].node # log[2].node
    /\ log[2].node # log[3].node
    /\ log[1].node # log[3].node


\* The roster record r is matched by the host h: h is its display name or
\* the host part of its first address.
RecordMatches(r, h) == h = r.name \/ h = FirstAddrHost[r.id]

\* The peer id is matched by the request: on the glusterd2 absent path a
\* requested node matches its roster record, on the other paths a requested
\* node denotes it.
MatchedByRequest(id) ==
    IF backend = "glusterd2" /\ request.state = "absent"
    THEN \E h \in Range(request.nodes) : RecordMatches(PeerOf(id), h)
    ELSE \E h \in Range(request.nodes) : id \in Resolve(h)

\* C20: a present run issues only probe or creation calls and an absent run
\* only detach or deletion calls; each probe, detach or creation call names
\* a node of the request; each deletion call uses the identifier of a roster
\* record matched by a node of the request; no peer joins the pool in an
\* absent run or leaves it in a present run, and the membership of a peer
\* the request does not match is as it was when the run started.
C20_FrameOfARun ==
    LET listed == Range(request.nodes)
        roster == RosterOf[pool0]
        ops == {"list", "roster", RequestOp}
    IN  /\ \A k \in 1..Len(log) :
             LET e == log[k] IN
             /\ e.op \in ops
             /\ e.op \in {"probe", "add"} => request.state = "present"
             /\ e.op \in {"detach", "remove"} => request.state = "absent"
             /\ e.op \in {"probe", "detach", "add", "remove"} =>
                  e.node \in listed
             /\ e.op \in {"probe", "detach", "add"} => e.arg = e.node
             /\ (e.op = "remove" /\ e.issued) =>
                  \E j \in 1..Len(roster) :
                     /\ roster[j].id = e.arg
                     /\ RecordMatches(roster[j], e.node)
        /\ request.state = "present" => pool0 \subseteq pool
        /\ request.state = "absent" => pool \subseteq pool0
        /\ \A id \in PeerIds :
             ((id \in pool) # (id \in pool0)) => MatchedByRequest(id)

\* A successful glusterd2 absent run removed a matched peer and left a peer
\* the request does not match in the pool.
C20_Witness ==
    /\ backend = "glusterd2"
    /\ request.state = "absent"
    /\ outcome = "Success"
    /\ pool # pool0
    /\ \E id \in pool0 : ~MatchedByRequest(id) /\ id \in pool

====
